---- MODULE Spec2Model ----
(***************************************************************************)
(* Model of SQLQueryAnalyzer (src/sql-query-analyzer.js).                   *)
(*                                                                         *)
(* A JavaScript string is a sequence of one-character strings.  Indices    *)
(* kept in variables are JavaScript's (0-based); CharAt and Substring do   *)
(* the conversion.  A JavaScript value passed to analyzeQuery is a record  *)
(* [type, str, num]: type is typeof's answer ("string", "number",          *)
(* "object", "undefined"), str the characters of a string, num the value   *)
(* of a number, isNull tells null from other objects.                      *)
(***************************************************************************)
EXTENDS Integers, Sequences, FiniteSets, TLC

----------------------------------------------------------------------------
(* Characters                                                              *)

LowerSeq == <<"a","b","c","d","e","f","g","h","i","j","k","l","m",
              "n","o","p","q","r","s","t","u","v","w","x","y","z">>

UpperSeq == <<"A","B","C","D","E","F","G","H","I","J","K","L","M",
              "N","O","P","Q","R","S","T","U","V","W","X","Y","Z">>

LowerSet == {LowerSeq[n] : n \in DOMAIN LowerSeq}

UpperSet == {UpperSeq[n] : n \in DOMAIN UpperSeq}

DigitSet == {"0","1","2","3","4","5","6","7","8","9"}

UpperTable == [c \in LowerSet |-> UpperSeq[CHOOSE n \in DOMAIN LowerSeq : LowerSeq[n] = c]]

LowerTable == [c \in UpperSet |-> LowerSeq[CHOOSE n \in DOMAIN UpperSeq : UpperSeq[n] = c]]

\* The regular expression class \s, on the characters of the model.
IsSpace(c) == c \in {" ", "\t", "\n"}

\* The regular expression class \w.
IsWordChar(c) == c \in LowerSet \cup UpperSet \cup DigitSet \cup {"_"}

\* The regular expression class [a-zA-Z_].
IsIdentStart(c) == c \in LowerSet \cup UpperSet \cup {"_"}

----------------------------------------------------------------------------
(* String.prototype methods                                                *)

ToUpperCase(s) == [n \in DOMAIN s |-> IF s[n] \in LowerSet THEN UpperTable[s[n]] ELSE s[n]]

ToLowerCase(s) == [n \in DOMAIN s |-> IF s[n] \in UpperSet THEN LowerTable[s[n]] ELSE s[n]]

\* s[n] with a 0-based n; "" stands for undefined (never compared equal to a character).
CharAt(s, n) == IF n >= 0 /\ n < Len(s) THEN s[n + 1] ELSE ""

Clamp(n, len) == IF n < 0 THEN 0 ELSE IF n > len THEN len ELSE n

\* s.substring(a, b): both ends clamped to [0, length], swapped when a > b.
Substring(s, a, b) ==
    LET ca == Clamp(a, Len(s))
        cb == Clamp(b, Len(s))
        lo == IF ca <= cb THEN ca ELSE cb
        hi == IF ca <= cb THEN cb ELSE ca
    IN  SubSeq(s, lo + 1, hi)

\* s.substring(a)
SubstringFrom(s, a) == Substring(s, a, Len(s))

StartsWith(s, p) == Len(p) <= Len(s) /\ SubSeq(s, 1, Len(p)) = p

\* s.indexOf(p), 0-based, -1 when p does not occur.
IndexOf(s, p) ==
    LET hits == {n \in 0..(Len(s) - Len(p)) : SubSeq(s, n + 1, n + Len(p)) = p}
    IN  IF hits = {} THEN -1 ELSE CHOOSE n \in hits : \A m \in hits : n <= m

\* s.lastIndexOf(c) for a one-character c.
LastIndexOf(s, c) ==
    LET hits == {n \in 0..(Len(s) - 1) : s[n + 1] = c}
    IN  IF hits = {} THEN -1 ELSE CHOOSE n \in hits : \A m \in hits : n >= m

RECURSIVE TrimStart(_)
TrimStart(s) == IF s # <<>> /\ IsSpace(Head(s)) THEN TrimStart(Tail(s)) ELSE s

RECURSIVE TrimEnd(_)
TrimEnd(s) ==
    IF s # <<>> /\ IsSpace(s[Len(s)]) THEN TrimEnd(SubSeq(s, 1, Len(s) - 1)) ELSE s

\* s.trim()
Trim(s) == TrimEnd(TrimStart(s))

\* s.replace(/\s+/g, ' '): every maximal run of whitespace becomes one space.
RECURSIVE CollapseSpaces(_)
CollapseSpaces(s) ==
    IF s = <<>> THEN <<>>
    ELSE IF IsSpace(Head(s)) THEN <<" ">> \o CollapseSpaces(TrimStart(s))
    ELSE <<Head(s)>> \o CollapseSpaces(Tail(s))

\* s.replace(/c/g, ' ') for a one-character c.
ReplaceChar(s, c) == [n \in DOMAIN s |-> IF s[n] = c THEN " " ELSE s[n]]

\* s.split(/\s+/): the pieces between maximal runs of whitespace; a run at
\* either end leaves an empty piece there, and "" splits to [""].
RECURSIVE SplitSpaces(_, _)
SplitSpaces(s, cur) ==
    IF s = <<>> THEN <<cur>>
    ELSE IF IsSpace(Head(s)) THEN <<cur>> \o SplitSpaces(TrimStart(s), <<>>)
    ELSE SplitSpaces(Tail(s), Append(cur, Head(s)))

----------------------------------------------------------------------------
(* Words of the program text                                               *)

SELECT == <<"S","E","L","E","C","T">>

FROM_SP == <<" ","F","R","O","M"," ">>

MsgInvalid == "Query must be a non-empty string"

MsgUnsupported == "Only SELECT queries are supported"

AS_WORD == <<"A","S">>

SUBQUERY_RESULT == <<"s","u","b","q","u","e","r","y","_","r","e","s","u","l","t">>

CALCULATED_FIELD == <<"c","a","l","c","u","l","a","t","e","d","_","f","i","e","l","d">>

\* constructor: this.sqlKeywords
sqlKeywords == {
    <<"F","R","O","M">>, <<"W","H","E","R","E">>, <<"G","R","O","U","P">>,
    <<"H","A","V","I","N","G">>, <<"O","R","D","E","R">>, <<"L","I","M","I","T">>,
    <<"O","F","F","S","E","T">>, <<"U","N","I","O","N">>, <<"I","N","T","E","R","S","E","C","T">>,
    <<"E","X","C","E","P","T">>, <<"J","O","I","N">>, <<"I","N","N","E","R">>,
    <<"L","E","F","T">>, <<"R","I","G","H","T">>, <<"F","U","L","L">>,
    <<"O","U","T","E","R">>, <<"O","N">>, <<"U","S","I","N","G">>}

----------------------------------------------------------------------------
(* Regular expressions of extractColumnName.  A match yields the text of   *)
(* its capture group; <<>> stands for null (no match): every capture       *)
(* group below is \w+ and so never empty when there is a match.            *)

AllSpace(s) == \A n \in DOMAIN s : IsSpace(s[n])

AllWord(s) == \A n \in DOMAIN s : IsWordChar(s[n])

\* The same without the i flag: AS in upper case only.
AsTailCaseSensitive(r) ==
    {SubstringFrom(r, a + 2 + b) : <<a, b>> \in
        {<<a, b>> \in (1..Len(r)) \X (1..Len(r)) :
            /\ a + 2 + b < Len(r)
            /\ AllSpace(Substring(r, 0, a))
            /\ Substring(r, a, a + 2) = AS_WORD
            /\ AllSpace(Substring(r, a + 2, a + 2 + b))
            /\ AllWord(SubstringFrom(r, a + 2 + b))}}

\* The texts w with r = \s+ AS \s+ w and w = \w+ (AS in any letter case).
AsTail(r) ==
    {SubstringFrom(r, a + 2 + b) : <<a, b>> \in
        {<<a, b>> \in (1..Len(r)) \X (1..Len(r)) :
            /\ a + 2 + b < Len(r)
            /\ AllSpace(Substring(r, 0, a))
            /\ ToUpperCase(Substring(r, a, a + 2)) = AS_WORD
            /\ AllSpace(Substring(r, a + 2, a + 2 + b))
            /\ AllWord(SubstringFrom(r, a + 2 + b))}}

\* columnExpr.match(/^(.+?)\s+AS\s+(\w+)$/i)[2]: group 1 is lazy, so the
\* shortest non-empty prefix without a line break after which the rest
\* matches is taken.
AsRegexMatch(e) ==
    LET ps == {p \in 1..Len(e) :
                  /\ \A n \in 1..p : e[n] # "\n"
                  /\ AsTail(SubstringFrom(e, p)) # {}}
    IN  IF ps = {} THEN <<>>
        ELSE LET p == CHOOSE q \in ps : \A m \in ps : q <= m
             IN  CHOOSE w \in AsTail(SubstringFrom(e, p)) : TRUE

\* afterParen.match(/^(?:AS\s+)?(\w+)$/i)[1]: the optional group is tried
\* first, then skipped.
SubqueryAsMatch(t) ==
    LET withAs == {b \in 1..Len(t) :
                      /\ 2 + b < Len(t)
                      /\ ToUpperCase(Substring(t, 0, 2)) = AS_WORD
                      /\ AllSpace(Substring(t, 2, 2 + b))
                      /\ AllWord(SubstringFrom(t, 2 + b))}
    IN  IF withAs # {} THEN SubstringFrom(t, 2 + (CHOOSE b \in withAs : TRUE))
        ELSE IF t # <<>> /\ AllWord(t) THEN t
        ELSE <<>>

\* afterParen.match(/^(\w+)$/)[1]
SubqueryImplicitMatch(t) == IF t # <<>> /\ AllWord(t) THEN t ELSE <<>>

\* /^[a-zA-Z_]\w*$/.test(s)
IsIdentifier(s) == s # <<>> /\ IsIdentStart(s[1]) /\ AllWord(s)

\* baseExpr.match(/^(\w+)\s*\(/)[1]: \w+ is greedy and must be followed by
\* spaces and "(", none of which is a word character.
FuncMatch(s) ==
    LET ws == {n \in 1..Len(s) : AllWord(SubSeq(s, 1, n))}
        w  == IF ws = {} THEN 0 ELSE CHOOSE n \in ws : \A m \in ws : n >= m
        ss == {n \in w..Len(s) : AllSpace(SubSeq(s, w + 1, n))}
    IN  IF w > 0 /\ \E n \in ss : CharAt(s, n) = "(" THEN SubSeq(s, 1, w) ELSE <<>>

\* /[+\-*/]/.test(s)
HasOperator(s) == \E n \in DOMAIN s : s[n] \in {"+", "-", "*", "/"}

----------------------------------------------------------------------------
(* The methods that are pure functions of their argument                   *)

\* cleanQuery(query)
cleanQuery(q) == ReplaceChar(ReplaceChar(CollapseSpaces(Trim(q)), "\n"), "\t")

\* isSelectQuery(query)
isSelectQuery(q) == StartsWith(Trim(ToUpperCase(q)), SELECT)

\* extractColumnName, the branch for an expression that starts with "(".
SubqueryName(columnExpr) ==
    LET lastParenIndex == LastIndexOf(columnExpr, ")")
        afterParen == Trim(SubstringFrom(columnExpr, lastParenIndex + 1))
    IN  IF lastParenIndex # -1 /\ afterParen # <<>> /\ SubqueryAsMatch(afterParen) # <<>>
        THEN SubqueryAsMatch(afterParen)
        ELSE IF lastParenIndex # -1 /\ afterParen # <<>>
                /\ SubqueryImplicitMatch(afterParen) # <<>>
        THEN SubqueryImplicitMatch(afterParen)
        ELSE SUBQUERY_RESULT

\* The base column name with the operator test ahead of the table.column rule.
BaseNameOperatorFirst(baseExpr) ==
    LET dotIndex == LastIndexOf(baseExpr, ".")
    IN  IF FuncMatch(baseExpr) # <<>> THEN ToLowerCase(FuncMatch(baseExpr))
        ELSE IF HasOperator(baseExpr) THEN CALCULATED_FIELD
        ELSE IF dotIndex # -1 THEN SubstringFrom(baseExpr, dotIndex + 1)
        ELSE baseExpr

\* The base column name with the table.column rule tried first.
BaseNameDotFirst(baseExpr) ==
    LET dotIndex == LastIndexOf(baseExpr, ".")
    IN  IF dotIndex # -1 THEN SubstringFrom(baseExpr, dotIndex + 1)
        ELSE IF FuncMatch(baseExpr) # <<>> THEN ToLowerCase(FuncMatch(baseExpr))
        ELSE IF HasOperator(baseExpr) THEN CALCULATED_FIELD
        ELSE baseExpr

\* extractColumnName, "No alias found, extract the base column name".
BaseName(baseExpr) ==
    LET dotIndex == LastIndexOf(baseExpr, ".")
    IN  IF FuncMatch(baseExpr) # <<>> THEN ToLowerCase(FuncMatch(baseExpr))
        ELSE IF dotIndex # -1 THEN SubstringFrom(baseExpr, dotIndex + 1)
        ELSE IF HasOperator(baseExpr) THEN CALCULATED_FIELD
        ELSE baseExpr

\* The implicit alias test with lastPart compared as written, not in upper case.
IsImplicitAliasCaseSensitive(parts) ==
    /\ Len(parts) >= 2
    /\ parts[Len(parts)] \notin sqlKeywords
    /\ IsIdentifier(parts[Len(parts)])

\* extractColumnName, the implicit alias test on the last of the parts.
IsImplicitAlias(parts) ==
    /\ Len(parts) >= 2
    /\ ToUpperCase(parts[Len(parts)]) \notin sqlKeywords
    /\ IsIdentifier(parts[Len(parts)])

\* extractColumnName(columnExpr)
extractColumnName(columnExpr) ==
    LET parts == SplitSpaces(columnExpr, <<>>)
    IN  IF StartsWith(Trim(columnExpr), <<"(">>) THEN SubqueryName(columnExpr)
        ELSE IF AsRegexMatch(columnExpr) # <<>> THEN AsRegexMatch(columnExpr)
        ELSE IF IsImplicitAlias(parts) THEN parts[Len(parts)]
        ELSE BaseName(parts[1])

----------------------------------------------------------------------------
(* The inputs of analyzeQuery                                              *)

\* Longest clause of the token family, in tokens.
MaxTokens == 3

\* Longest all-whitespace query.
MaxBlank == 2

JsString(s) == [type |-> "string", str |-> s, num |-> 0, isNull |-> FALSE]

JsNull == [type |-> "object", str |-> <<>>, num |-> 0, isNull |-> TRUE]

JsUndefined == [type |-> "undefined", str |-> <<>>, num |-> 0, isNull |-> FALSE]

JsNumber(n) == [type |-> "number", str |-> <<>>, num |-> n, isNull |-> FALSE]

JsObject == [type |-> "object", str |-> <<>>, num |-> 0, isNull |-> FALSE]

NonStrings == {JsNull, JsUndefined, JsNumber(0), JsNumber(5), JsObject}

RECURSIVE SeqsUpTo(_, _)
SeqsUpTo(S, n) ==
    IF n = 0 THEN {<<>>}
    ELSE LET shorter == SeqsUpTo(S, n - 1)
         IN  shorter \cup {Append(s, x) : s \in shorter, x \in S}

RECURSIVE Flatten(_)
Flatten(ss) == IF ss = <<>> THEN <<>> ELSE Head(ss) \o Flatten(Tail(ss))

BlankStrings == SeqsUpTo({" ", "\t", "\n"}, MaxBlank)

SELECT_SP == <<"S","E","L","E","C","T"," ">>

FROM_T == <<" ","F","R","O","M"," ","t">>

Leads == {<<>>,
     <<" ">>,
     <<"\n","\t">>}

Heads == {<<"S","E","L","E","C","T">>,
          <<"s","e","l","e","c","t">>,
          <<"S","e","L","e","C","t">>,
          <<"S","E","L","E","C","T","E","D">>,
          <<"S","E","L","E","C","T","_">>,
          <<"S","E","L","E","C","T","1">>,
          <<"S","E","L","E","C","T","(">>,
          <<"S","E","L","E","C">>,
          <<"I","N","S","E","R","T">>,
          <<"U","P","D","A","T","E">>}

Rests == {<<>>,
          <<" ","a"," ","F","R","O","M"," ","t">>,
          <<"\t","a">>,
          <<"a",")"," ","F","R","O","M"," ","t">>}

HeadFamily == {l \o h \o r : l \in Leads, h \in Heads, r \in Rests}

Tokens == {<<"a">>,
           <<"t",".">>,
           <<",">>,
           <<"(">>,
           <<")">>,
           <<"'">>,
           <<"\"">>,
           <<"\\">>,
           <<" ","F","r","o","m"," ">>,
           <<" ","A","S"," ">>,
           <<" ","x">>}

Tails == {<<>>, FROM_T}

TokenFamily ==
    {SELECT_SP \o Flatten(ts) \o tl : ts \in SeqsUpTo(Tokens, MaxTokens), tl \in Tails}

Operands == {<<"p","r","i","c","e">>,
             <<"q","u","a","n","t","i","t","y">>}

Operators == {<<" ","+"," ">>,
              <<" ","-"," ">>,
              <<" ","*"," ">>,
              <<" ","/"," ">>,
              <<"*">>,
              <<"-">>}

ArithFamily ==
    {SELECT_SP \o x \o op \o y \o FROM_T :
        x \in Operands, op \in Operators, y \in Operands}

Anythings == {<<"a">>,
              <<"t",".","a">>,
              <<"M","A","X","(","a",",","b",")">>,
              <<"a"," ","*"," ","b">>,
              <<"a"," ","A","S"," ","b">>,
              <<"C","A","S","E"," ","W","H","E","N"," ","a"," ","T","H","E","N"," ","'","A","S","'"," ","E","N","D">>,
              <<"a","s">>}

AsWords == {<<" ","A","S"," ">>,
     <<" ","a","s"," ">>,
     <<"\t","a","S","\n">>}

Aliases == {<<"x">>,
     <<"_","y","1">>,
     <<"L","e","f","t">>,
     <<"a","s">>,
     <<"1","x">>}

AliasFamily ==
    {SELECT_SP \o pre \o e \o w \o al \o FROM_T :
        pre \in {<<>>, <<"a",","," ">>}, e \in Anythings, w \in AsWords, al \in Aliases}

Firsts == {<<"a">>,
           <<"t",".","c","o","l">>,
           <<"C","O","U","N","T","(","a",")">>,
           <<"a","*","b">>,
           <<"a",".">>,
           <<"1">>}

Middles == {<<>>,
     <<" ","+">>}

Lasts == {<<" ","a","l","i","a","s","_","n","a","m","e">>,
          <<" ","F","r","o","m">>,
          <<" ","W","H","E","R","E">>,
          <<" ","o","n">>,
          <<" ","1">>,
          <<" ","b",".","c">>,
          <<" ","*">>,
          <<" ","'","x","'">>}

ImplicitFamily ==
    {SELECT_SP \o f \o m \o l \o tl : f \in Firsts, m \in Middles, l \in Lasts, tl \in Tails}

FunctionNames == {<<"C","O","U","N","T">>,
                  <<"S","u","m">>,
                  <<"m","a","x","_","1">>}

Arguments == {<<"i","d">>,
              <<"t",".","a">>,
              <<"a","*","b">>,
              <<"a",","," ","b">>,
              <<"D","I","S","T","I","N","C","T"," ","x">>,
              <<>>}

AfterCalls == {<<>>,
               <<" ","+"," ","1">>,
               <<"+","t",".","c">>,
               <<" ","t","o","t","a","l">>,
               <<" ","A","S"," ","n">>}

FunctionFamily ==
    {SELECT_SP \o fn \o <<"(">> \o arg \o <<")">> \o ac \o FROM_T :
        fn \in FunctionNames, arg \in Arguments, ac \in AfterCalls}

Qualifieds == {<<"s",".","t",".","c","o","l">>,
               <<"t",".","a","*","b">>,
               <<"t",".","a","-","b">>,
               <<"1",".","5">>,
               <<"u",".","n","a","m","e",","," ","u",".","e","_","m","a","i","l">>,
               <<"d","b",".","f","(","a",")">>,
               <<"a","+","t",".","b">>,
               <<"T",".","C","o","l">>}

QualifiedFamily == {SELECT_SP \o q \o tl : q \in Qualifieds, tl \in Tails}

Subqueries == {<<"(","S","E","L","E","C","T"," ","C","O","U","N","T","(","*",")"," ","F","R","O","M"," ","o",")">>,
              <<"(","a"," ","+"," ","b",")">>,
              <<"(","a">>,
              <<"(","a",")"," ","*"," ","(","b",")">>}

AfterSubqueries == {<<>>,
                   <<" ","x">>,
                   <<"x">>,
                   <<" ","A","S"," ","x">>,
                   <<" ","a","s"," ","L","e","f","t">>,
                   <<" ","A","S">>,
                   <<" ","1","x">>,
                   <<" ","A","S"," ","1","x">>,
                   <<" ","*"," ","c"," ","A","S"," ","t","o","t","a","l">>,
                   <<" ","b"," ","c">>,
                   <<" ","t",".","x">>}

SubqueryFamily ==
    {SELECT_SP \o sq \o af \o tl : sq \in Subqueries, af \in AfterSubqueries, tl \in Tails}

Inputs ==
    NonStrings \cup
    {JsString(s) : s \in BlankStrings \cup HeadFamily \cup TokenFamily \cup ArithFamily
                         \cup AliasFamily \cup ImplicitFamily \cup FunctionFamily
                         \cup QualifiedFamily \cup SubqueryFamily}

----------------------------------------------------------------------------
(* State: one call of analyzeQuery                                         *)

VARIABLES
    query,         \* analyzeQuery's argument, a JavaScript value
    pc,            \* where the call is: "analyzeQuery", "cleanQuery",
                   \* "isSelectQuery", "extractSelectClause",
                   \* "splitSelectColumns", "parseSelectColumns", "done"
    ran,           \* the methods entered so far
    thrown,        \* the message of the Error thrown, "" when none
    returned,      \* TRUE once analyzeQuery has returned its columns
    cleaned,       \* analyzeQuery's local cleanQuery
    ext,           \* extractSelectClause's locals
    selectClause,  \* analyzeQuery's local selectClause
    spl,           \* splitSelectColumns' locals
    columnParts,   \* parseSelectColumns' local columnParts
    nam,           \* parseSelectColumns' loop: position and last columnName
    columns        \* parseSelectColumns' local columns, analyzeQuery's result

vars == <<query, pc, ran, thrown, returned, cleaned, ext, selectClause, spl,
          columnParts, nam, columns>>

ExtInit == [selectStart |-> 0, selectEnd |-> 0, i |-> 0, parenthesesLevel |-> 0,
            inQuotes |-> FALSE, quoteChar |-> "", broke |-> FALSE]

SplInit == [i |-> 0, parenthesesLevel |-> 0, inQuotes |-> FALSE, quoteChar |-> "",
            currentPart |-> <<>>, parts |-> <<>>]

NamInit == [k |-> 0, part |-> <<>>, columnName |-> <<>>]

Init ==
    /\ query \in Inputs
    /\ pc = "analyzeQuery"
    /\ ran = {"analyzeQuery"}
    /\ thrown = ""
    /\ returned = FALSE
    /\ cleaned = <<>>
    /\ ext = ExtInit
    /\ selectClause = <<>>
    /\ spl = SplInit
    /\ columnParts = <<>>
    /\ nam = NamInit
    /\ columns = <<>>

----------------------------------------------------------------------------
(* analyzeQuery: validation                                                *)

\* !query
Falsy(v) ==
    \/ v.type = "undefined"
    \/ v.type = "object" /\ v.isNull
    \/ v.type = "number" /\ v.num = 0
    \/ v.type = "string" /\ v.str = <<>>

\* The validation with the typeof test left out.
InvalidQueryNoTypeof(v) == Falsy(v)

\* The validation with an added test for blank text.
InvalidQueryBlank(v) == Falsy(v) \/ v.type # "string" \/ Trim(v.str) = <<>>

\* !query || typeof query !== 'string'
InvalidQuery(v) == Falsy(v) \/ v.type # "string"

\* if (!query || typeof query !== 'string') throw ...
Validate ==
    /\ pc = "analyzeQuery"
    /\ IF InvalidQuery(query)
       THEN /\ thrown' = MsgInvalid
            /\ pc' = "done"
       ELSE /\ thrown' = thrown
            /\ pc' = "cleanQuery"
    /\ UNCHANGED <<query, ran, returned, cleaned, ext, selectClause, spl,
                   columnParts, nam, columns>>

\* const cleanQuery = this.cleanQuery(query)
Clean ==
    /\ pc = "cleanQuery"
    /\ cleaned' = cleanQuery(query.str)
    /\ ran' = ran \cup {"cleanQuery"}
    /\ pc' = "isSelectQuery"
    /\ UNCHANGED <<query, thrown, returned, ext, selectClause, spl, columnParts,
                   nam, columns>>

\* extractSelectClause, up to the loop: selectStart, selectEnd and the scan state.
ExtEnter(q) ==
    [selectStart |-> IndexOf(ToUpperCase(q), SELECT) + 6,
     selectEnd |-> Len(q),
     i |-> IndexOf(ToUpperCase(q), SELECT) + 6,
     parenthesesLevel |-> 0, inQuotes |-> FALSE, quoteChar |-> "", broke |-> FALSE]

\* if (!this.isSelectQuery(cleanQuery)) throw ...; else extractSelectClause is entered
CheckSelect ==
    /\ pc = "isSelectQuery"
    /\ ran' = ran \cup {"isSelectQuery"} \cup
                 (IF isSelectQuery(cleaned) THEN {"extractSelectClause"} ELSE {})
    /\ IF isSelectQuery(cleaned)
       THEN /\ thrown' = thrown
            /\ ext' = ExtEnter(cleaned)
            /\ pc' = "extractSelectClause"
       ELSE /\ thrown' = MsgUnsupported
            /\ ext' = ext
            /\ pc' = "done"
    /\ UNCHANGED <<query, returned, cleaned, selectClause, spl, columnParts, nam,
                   columns>>

----------------------------------------------------------------------------
(* extractSelectClause: the scan                                           *)

\* The quote handling of one iteration: the new <<inQuotes, quoteChar>>.
ExtQuotes(f, char, prevChar) ==
    IF char \in {"\"", "'"} /\ prevChar # "\\"
    THEN IF ~f.inQuotes THEN <<TRUE, char>>
         ELSE IF char = f.quoteChar THEN <<FALSE, "">>
         ELSE <<f.inQuotes, f.quoteChar>>
    ELSE <<f.inQuotes, f.quoteChar>>

\* The scan with the parenthesis tracking left out.
ExtLevelFlat(level, char) == level

\* The parenthesis tracking of one iteration, run when not in quotes.
ExtLevel(level, char) ==
    IF char = "(" THEN level + 1 ELSE IF char = ")" THEN level - 1 ELSE level

\* remaining.startsWith(' FROM ') with remaining = query.substring(i).toUpperCase()
ExtAtFrom(q, i) == StartsWith(ToUpperCase(SubstringFrom(q, i)), FROM_SP)

\* The loop body with i left where it is after a quote character was handled.
ExtIterateHoldAtQuote(f, q) ==
    LET char == CharAt(q, f.i)
        prevChar == IF f.i > 0 THEN CharAt(q, f.i - 1) ELSE ""
        qs == ExtQuotes(f, char, prevChar)
        level == IF ~qs[1] THEN ExtLevel(f.parenthesesLevel, char)
                 ELSE f.parenthesesLevel
        found == ~qs[1] /\ level = 0 /\ ExtAtFrom(q, f.i)
    IN  [f EXCEPT !.inQuotes = qs[1], !.quoteChar = qs[2],
                  !.parenthesesLevel = level,
                  !.selectEnd = IF found THEN f.i ELSE @,
                  !.broke = found,
                  !.i = IF found \/ qs[1] # f.inQuotes THEN @ ELSE @ + 1]

\* One iteration of the for loop of extractSelectClause.
ExtIterate(f, q) ==
    LET char == CharAt(q, f.i)
        prevChar == IF f.i > 0 THEN CharAt(q, f.i - 1) ELSE ""
        qs == ExtQuotes(f, char, prevChar)
        level == IF ~qs[1] THEN ExtLevel(f.parenthesesLevel, char)
                 ELSE f.parenthesesLevel
        found == ~qs[1] /\ level = 0 /\ ExtAtFrom(q, f.i)
    IN  [f EXCEPT !.inQuotes = qs[1], !.quoteChar = qs[2],
                  !.parenthesesLevel = level,
                  !.selectEnd = IF found THEN f.i ELSE @,
                  !.broke = found,
                  !.i = IF found THEN @ ELSE @ + 1]

\* The loop condition: i < query.length - 4, and no break so far.
ExtRunning(f, q) == ~f.broke /\ f.i < Len(q) - 4

ExtractStep ==
    /\ pc = "extractSelectClause"
    /\ ExtRunning(ext, cleaned)
    /\ ext' = ExtIterate(ext, cleaned)
    /\ UNCHANGED <<query, pc, ran, thrown, returned, cleaned, selectClause, spl,
                   columnParts, nam, columns>>

\* return query.substring(selectStart, selectEnd).trim()
ExtResult(f, q) == Trim(Substring(q, f.selectStart, f.selectEnd))

\* extractSelectClause returns; parseSelectColumns calls splitSelectColumns.
ExtractReturn ==
    /\ pc = "extractSelectClause"
    /\ ~ExtRunning(ext, cleaned)
    /\ selectClause' = ExtResult(ext, cleaned)
    /\ ran' = ran \cup {"parseSelectColumns", "splitSelectColumns"}
    /\ spl' = SplInit
    /\ pc' = "splitSelectColumns"
    /\ UNCHANGED <<query, thrown, returned, cleaned, ext, columnParts, nam, columns>>

----------------------------------------------------------------------------
(* splitSelectColumns: the scan                                            *)

\* The quote handling with the backslash test left out.
SplQuotesNoEscape(f, char, prevChar) ==
    IF char \in {"\"", "'"}
    THEN IF ~f.inQuotes THEN <<TRUE, char>>
         ELSE IF char = f.quoteChar THEN <<FALSE, "">>
         ELSE <<f.inQuotes, f.quoteChar>>
    ELSE <<f.inQuotes, f.quoteChar>>

SplQuotes(f, char, prevChar) ==
    IF char \in {"\"", "'"} /\ prevChar # "\\"
    THEN IF ~f.inQuotes THEN <<TRUE, char>>
         ELSE IF char = f.quoteChar THEN <<FALSE, "">>
         ELSE <<f.inQuotes, f.quoteChar>>
    ELSE <<f.inQuotes, f.quoteChar>>

SplLevel(level, char) ==
    IF char = "(" THEN level + 1 ELSE IF char = ")" THEN level - 1 ELSE level

\* The comma test with the level left out.
SplAtCommaAnyLevel(inQuotes, level, char) == ~inQuotes /\ char = ","

\* char === ',' && parenthesesLevel === 0, tested when not in quotes.
SplAtComma(inQuotes, level, char) == ~inQuotes /\ char = "," /\ level = 0

\* One iteration of the for loop of splitSelectColumns.
SplIterate(f, s) ==
    LET char == CharAt(s, f.i)
        prevChar == IF f.i > 0 THEN CharAt(s, f.i - 1) ELSE ""
        qs == SplQuotes(f, char, prevChar)
        level == IF ~qs[1] THEN SplLevel(f.parenthesesLevel, char)
                 ELSE f.parenthesesLevel
        cut == SplAtComma(qs[1], level, char)
    IN  [f EXCEPT !.inQuotes = qs[1], !.quoteChar = qs[2],
                  !.parenthesesLevel = level,
                  !.parts = IF cut THEN Append(@, Trim(f.currentPart)) ELSE @,
                  !.currentPart = IF cut THEN <<>> ELSE Append(@, char),
                  !.i = @ + 1]

SplitStep ==
    /\ pc = "splitSelectColumns"
    /\ spl.i < Len(selectClause)
    /\ spl' = SplIterate(spl, selectClause)
    /\ UNCHANGED <<query, pc, ran, thrown, returned, cleaned, ext, selectClause,
                   columnParts, nam, columns>>

\* if (currentPart.trim()) parts.push(currentPart.trim()); return parts
SplResult(f) ==
    IF Trim(f.currentPart) # <<>> THEN Append(f.parts, Trim(f.currentPart)) ELSE f.parts

SplitReturn ==
    /\ pc = "splitSelectColumns"
    /\ spl.i >= Len(selectClause)
    /\ columnParts' = SplResult(spl)
    /\ nam' = NamInit
    /\ columns' = <<>>
    /\ pc' = "parseSelectColumns"
    /\ UNCHANGED <<query, ran, thrown, returned, cleaned, ext, selectClause, spl>>

----------------------------------------------------------------------------
(* parseSelectColumns: the loop over the parts                             *)

\* if (columnName) columns.push(columnName)
PushName(cols, columnName) == IF columnName # <<>> THEN Append(cols, columnName) ELSE cols

NameStep ==
    /\ pc = "parseSelectColumns"
    /\ nam.k < Len(columnParts)
    /\ LET part == columnParts[nam.k + 1]
           columnName == extractColumnName(Trim(part))
       IN  /\ nam' = [k |-> nam.k + 1, part |-> part, columnName |-> columnName]
           /\ columns' = PushName(columns, columnName)
    /\ ran' = ran \cup {"extractColumnName"}
    /\ UNCHANGED <<query, pc, thrown, returned, cleaned, ext, selectClause, spl,
                   columnParts>>

\* return columns (parseSelectColumns, then analyzeQuery)
Return ==
    /\ pc = "parseSelectColumns"
    /\ nam.k >= Len(columnParts)
    /\ returned' = TRUE
    /\ pc' = "done"
    /\ UNCHANGED <<query, ran, thrown, cleaned, ext, selectClause, spl, columnParts,
                   nam, columns>>

Next ==
    \/ Validate
    \/ Clean
    \/ CheckSelect
    \/ ExtractStep
    \/ ExtractReturn
    \/ SplitStep
    \/ SplitReturn
    \/ NameStep
    \/ Return

Spec == Init /\ [][Next]_vars

----------------------------------------------------------------------------
(* Properties of analyzeQuery's validation                                 *)

Finished == pc = "done"

IsStringInput == query.type = "string"

BlankInput == IsStringInput /\ query.str # <<>> /\ AllSpace(query.str)

\* C1: analyzeQuery called with a value that is not a string, or with the
\* empty string, throws "Query must be a non-empty string", and cleanQuery,
\* isSelectQuery, extractSelectClause and the scans have not run: the call
\* goes from its entry straight to its end and leaves every local untouched.
C1_InvalidInputFailsFast ==
    (~IsStringInput \/ query.str = <<>>) =>
        /\ pc \in {"analyzeQuery", "done"}
        /\ ran = {"analyzeQuery"}
        /\ Finished => thrown = MsgInvalid /\ ~returned
        /\ cleaned = <<>> /\ ext = ExtInit /\ selectClause = <<>>
        /\ spl = SplInit /\ columnParts = <<>> /\ columns = <<>>

\* C1 witness: a truthy non-string (the number 5) has been rejected.
C1_Witness ==
    /\ Finished
    /\ query = JsNumber(5)
    /\ thrown = MsgInvalid

BeginsWithSelectToken(q) ==
    /\ StartsWith(ToUpperCase(q), SELECT)
    /\ Len(q) = 6 \/ ~IsWordChar(q[7])

NonBlankInput == IsStringInput /\ ~AllSpace(query.str)

\* C3 as stated: for a non-blank string, "Only SELECT queries are supported"
\* is thrown if and only if the normalized query does not begin with the
\* token SELECT.
C3_UnsupportedIffNoSelectToken ==
    (NonBlankInput /\ Finished) =>
        (thrown = MsgUnsupported <=> ~BeginsWithSelectToken(cleaned))

----------------------------------------------------------------------------
(* Top level, as the glossary defines it: at parenthesis depth zero and     *)
(* outside any quoted literal.  Positions here are 1-based.                 *)

\* <<depth, open quote>> just before s[n], reading s from s[start]; the
\* open quote is "" outside a literal.  A quote character preceded by a
\* backslash neither opens nor closes a literal; parentheses inside a
\* literal do not count.
RECURSIVE NestingBefore(_, _, _)
NestingBefore(s, start, n) ==
    IF n <= start THEN <<0, "">>
    ELSE LET before == NestingBefore(s, start, n - 1)
             c == s[n - 1]
             escaped == n > 2 /\ s[n - 2] = "\\"
         IN  IF before[2] # ""
             THEN IF c = before[2] /\ ~escaped THEN <<before[1], "">> ELSE before
             ELSE IF c \in {"'", "\""} /\ ~escaped THEN <<before[1], c>>
             ELSE IF c = "(" THEN <<before[1] + 1, "">>
             ELSE IF c = ")" THEN <<before[1] - 1, "">>
             ELSE before

TopLevelAt(s, start, n) == NestingBefore(s, start, n) = <<0, "">>

\* Parentheses and quotes of s, read from s[start], are balanced: every ")"
\* closes an open "(", and at the end nothing is left open.
Balanced(s, start) ==
    /\ \A n \in start..(Len(s) + 1) : NestingBefore(s, start, n)[1] >= 0
    /\ NestingBefore(s, start, Len(s) + 1) = <<0, "">>

\* The 1-based positions of s, from start on, where " FROM " begins, in any
\* letter case.
FromPositions(s, start) ==
    {n \in start..(Len(s) - 5) : ToUpperCase(SubSeq(s, n, n + 5)) = FROM_SP}

TopLevelFroms(s, start) == {n \in FromPositions(s, start) : TopLevelAt(s, start, n)}

TopLevelCommas(s) == {n \in 1..Len(s) : s[n] = "," /\ TopLevelAt(s, 1, n)}

Least(S) == CHOOSE n \in S : \A m \in S : n <= m

\* The texts between consecutive top-level commas of s, from position n on,
\* each trimmed; the text after the last comma is left out when it is blank.
RECURSIVE SegmentsFrom(_, _)
SegmentsFrom(s, n) ==
    LET later == {c \in TopLevelCommas(s) : c >= n}
    IN  IF later = {}
        THEN IF Trim(SubSeq(s, n, Len(s))) = <<>> THEN <<>>
             ELSE <<Trim(SubSeq(s, n, Len(s)))>>
        ELSE <<Trim(SubSeq(s, n, Least(later) - 1))>> \o SegmentsFrom(s, Least(later) + 1)

TopLevelSegments(s) == SegmentsFrom(s, 1)

NonEmpty(ss) == SelectSeq(ss, LAMBDA x : x # <<>>)

----------------------------------------------------------------------------
(* Properties of the result of an accepted query                           *)

\* C4 as stated: the number of returned names equals the number of
\* non-empty column expressions that splitSelectColumns produced.
C4_OneNamePerNonEmptyPart ==
    returned => Len(columns) = Len(NonEmpty(columnParts))

\* C5 as stated, empty segments passed over: the i-th returned name is
\* extractColumnName of the i-th non-empty top-level comma-delimited segment
\* of the SELECT clause.
C5_NamesInSegmentOrder ==
    returned =>
        LET segs == NonEmpty(TopLevelSegments(selectClause))
        IN  /\ Len(columns) <= Len(segs)
            /\ \A n \in DOMAIN columns :
                  n <= Len(segs) => columns[n] = extractColumnName(segs[n])

\* C6: for a query whose parentheses and quotes are balanced, the SELECT
\* clause ends at the first top-level " FROM " (any letter case) after the
\* SELECT keyword; a " FROM " inside parentheses or a quoted literal is never
\* the end; with no top-level " FROM " the clause is the rest of the query.
\* Either way the clause is trimmed.
C6_ClauseEndsAtFirstTopLevelFrom ==
    (returned /\ Balanced(cleaned, 7)) =>
        LET ends == TopLevelFroms(cleaned, 7)
        IN  selectClause =
                IF ends = {} THEN Trim(SubSeq(cleaned, 7, Len(cleaned)))
                ELSE Trim(SubSeq(cleaned, 7, Least(ends) - 1))

\* C6 witness: a balanced query with a " FROM " inside parentheses or quotes
\* that was passed over, the clause ending at a later, top-level one.
C6_Witness ==
    /\ returned
    /\ Balanced(cleaned, 7)
    /\ TopLevelFroms(cleaned, 7) # {}
    /\ \E n \in FromPositions(cleaned, 7) : n < Least(TopLevelFroms(cleaned, 7))
    /\ selectClause = Trim(SubSeq(cleaned, 7, Least(TopLevelFroms(cleaned, 7)) - 1))

\* C7: for a clause whose parentheses and quotes are balanced, the parts
\* that splitSelectColumns returns are the trimmed texts between consecutive
\* top-level commas: a comma inside parentheses or a quoted literal ends no
\* part, and every top-level comma ends one.
C7_PartsAreTopLevelSegments ==
    (returned /\ Balanced(selectClause, 1)) =>
        columnParts = TopLevelSegments(selectClause)

\* C7 witness: a balanced clause with a top-level comma and a comma inside
\* parentheses or quotes, split in two parts.
C7_Witness ==
    /\ returned
    /\ Balanced(selectClause, 1)
    /\ Cardinality(TopLevelCommas(selectClause)) = 1
    /\ \E n \in 1..Len(selectClause) :
          selectClause[n] = "," /\ n \notin TopLevelCommas(selectClause)
    /\ Len(columnParts) = 2

----------------------------------------------------------------------------
(* Properties of extractColumnName, read off parseSelectColumns' loop:      *)
(* nam.part is the expression just named, nam.columnName its name.          *)

Named == nam.k >= 1

\* e is x op y: two bare column names around one of + - * /, with a space on
\* either side of the operator.
IsSpacedArithmetic(e) ==
    \E n \in 2..(Len(e) - 2) :
        /\ e[n] = " " /\ e[n + 1] \in {"+", "-", "*", "/"} /\ e[n + 2] = " "
        /\ IsIdentifier(SubSeq(e, 1, n - 1))
        /\ IsIdentifier(SubSeq(e, n + 3, Len(e)))

\* C8 as stated: an unaliased arithmetic item x op y, written with spaces
\* around the operator, is named calculated_field.
C8_SpacedArithmeticIsCalculatedField ==
    (Named /\ IsSpacedArithmetic(nam.part)) => nam.columnName = CALCULATED_FIELD

\* The identifiers al with e = <anything> AS al: a non-empty text, spaces,
\* AS in any letter case, spaces, and an identifier (letters, digits and
\* underscore, not starting with a digit) up to the end of e.
ExplicitAliases(e) ==
    {SubSeq(e, k, Len(e)) : k \in
        {k \in 1..Len(e) :
            /\ IsIdentifier(SubSeq(e, k, Len(e)))
            /\ \E h \in 2..k, a \in 2..k :
                  /\ h < a /\ a + 2 < k
                  /\ AllSpace(SubSeq(e, h, a - 1))
                  /\ ToUpperCase(SubSeq(e, a, a + 1)) = AS_WORD
                  /\ AllSpace(SubSeq(e, a + 2, k - 1))}}

StartsWithParen(e) == e # <<>> /\ e[1] = "("

\* C9: for an expression that does not start with "(" and has the form
\* <anything> AS <identifier>, extractColumnName returns the identifier.
C9_ExplicitAliasIsReturned ==
    (Named /\ ~StartsWithParen(nam.part)) =>
        \A al \in ExplicitAliases(nam.part) : nam.columnName = al

\* C9 witness: "a AS b AS x", where <anything> itself contains AS, named x.
C9_Witness ==
    /\ Named
    /\ nam.part = <<"a"," ","A","S"," ","b"," ","A","S"," ","x">>
    /\ nam.columnName = <<"x">>

HasSpace(e) == \E n \in DOMAIN e : IsSpace(e[n])

\* The text of e before its first whitespace, and after its last.
FirstToken(e) == SubSeq(e, 1, Least({n \in 1..(Len(e) + 1) : n > Len(e) \/ IsSpace(e[n])}) - 1)

LastToken(e) ==
    LET after == {n \in 0..Len(e) : \A m \in (n + 1)..Len(e) : ~IsSpace(e[m])}
    IN  SubSeq(e, Least(after) + 1, Len(e))

----------------------------------------------------------------------------
(* Properties of the rules for an expression without an alias              *)

\* The words w with e = <anything> AS w: as ExplicitAliases, with any run of
\* letters, digits and underscores for w.
TrailingAsWords(e) ==
    {SubSeq(e, k, Len(e)) : k \in
        {k \in 1..Len(e) :
            /\ AllWord(SubSeq(e, k, Len(e)))
            /\ \E h \in 2..k, a \in 2..k :
                  /\ h < a /\ a + 2 < k
                  /\ AllSpace(SubSeq(e, h, a - 1))
                  /\ ToUpperCase(SubSeq(e, a, a + 1)) = AS_WORD
                  /\ AllSpace(SubSeq(e, a + 2, k - 1))}}

\* e has two or more tokens and ends with an identifier that is no reserved
\* keyword: the implicit alias of rule 3.
HasImplicitAliasForm(e) ==
    /\ HasSpace(e)
    /\ IsIdentifier(LastToken(e))
    /\ ToUpperCase(LastToken(e)) \notin sqlKeywords

\* e is no subquery and carries no alias, explicit or implicit.
Unaliased(e) ==
    /\ e # <<>>
    /\ ~StartsWithParen(e)
    /\ TrailingAsWords(e) = {}
    /\ ~HasImplicitAliasForm(e)

\* The text of t before its first "(", <<>> when t has no "(".
BeforeParen(t) ==
    LET ps == {n \in 1..Len(t) : t[n] = "("}
    IN  IF ps = {} THEN <<>> ELSE SubSeq(t, 1, Least(ps) - 1)

\* C11: for an unaliased expression whose first token is <identifier>(...,
\* extractColumnName returns the identifier in lower case, whatever the
\* letter case in the query and whatever the arguments: a "." or an operator
\* in the token does not bring the table-qualified or the computed rule in.
C11_FunctionNameLowerCased ==
    (/\ Named
     /\ Unaliased(nam.part)
     /\ IsIdentifier(BeforeParen(FirstToken(nam.part)))) =>
        nam.columnName = ToLowerCase(BeforeParen(FirstToken(nam.part)))

\* C11 witness: "Sum(t.a)+t.c", with dots and an operator in the token, named sum.
C11_Witness ==
    /\ Named
    /\ nam.part = <<"S","u","m","(","t",".","a",")","+","t",".","c">>
    /\ nam.columnName = <<"s","u","m">>

\* t is a function call: a run of letters, digits and underscores, then "(".
IsFunctionCallToken(t) == BeforeParen(t) # <<>> /\ AllWord(BeforeParen(t))

HasDot(e) == \E n \in DOMAIN e : e[n] = "."

\* The text of e after its last ".".
AfterLastDot(e) ==
    LET after == {n \in 0..Len(e) : \A m \in (n + 1)..Len(e) : e[m] # "."}
    IN  SubSeq(e, Least(after) + 1, Len(e))

\* C12: for an expression that is a single token with a "." in it, is no
\* function call and does not start with "(", extractColumnName returns the
\* text after the last ".", also when the token holds an operator.
C12_TableQualifiedColumn ==
    (/\ Named
     /\ ~HasSpace(nam.part)
     /\ HasDot(nam.part)
     /\ ~StartsWithParen(nam.part)
     /\ ~IsFunctionCallToken(nam.part)) =>
        nam.columnName = AfterLastDot(nam.part)

\* C12 witness: "s.t.col" has been named col.
C12_Witness ==
    /\ Named
    /\ nam.part = <<"s",".","t",".","c","o","l">>
    /\ nam.columnName = <<"c","o","l">>

----------------------------------------------------------------------------
(* Termination and outcome                                                 *)

\* The query has an unclosed quote or parentheses that do not match.
Malformed == IsStringInput /\ cleaned # <<>> /\ ~Balanced(cleaned, 1)

\* The call has ended in exactly one of three ways: the list of names, with
\* every character of the clause scanned and every part named; or one of the
\* two errors, with nothing returned and no name collected.
OneOutcome ==
    \/ /\ returned /\ thrown = ""
       /\ spl.i = Len(selectClause)
       /\ nam.k = Len(columnParts)
       /\ Len(columns) <= Len(columnParts)
    \/ ~returned /\ thrown = MsgInvalid /\ columns = <<>> /\ columnParts = <<>>
    \/ ~returned /\ thrown = MsgUnsupported /\ columns = <<>> /\ columnParts = <<>>

\* Until the call has ended nothing is returned or thrown, and control is
\* at one of the six stages, each of which has a step to take.
Underway ==
    /\ ~returned /\ thrown = ""
    /\ pc \in {"analyzeQuery", "cleanQuery", "isSelectQuery",
               "extractSelectClause", "splitSelectColumns", "parseSelectColumns"}

\* An upper bound, linear in the length of the query, on the steps left.
StepsLeft ==
    LET N == Len(query.str)
    IN  CASE pc = "analyzeQuery" -> 3 * N + 8
          [] pc = "cleanQuery" -> 3 * N + 7
          [] pc = "isSelectQuery" -> 3 * N + 6
          [] pc = "extractSelectClause" ->
                 2 * N + 5 + (Len(cleaned) - ext.i) + (IF ext.broke THEN 0 ELSE 1)
          [] pc = "splitSelectColumns" -> N + 3 + (Len(selectClause) - spl.i)
          [] pc = "parseSelectColumns" -> 1 + (Len(columnParts) - nam.k)
          [] pc = "done" -> 0

\* Each scan reads its input once, left to right: an iteration moves the
\* position one character (one part) on, or is the break of extractSelectClause.
OnePass ==
    /\ (pc = "extractSelectClause" /\ pc' = pc) =>
          \/ ext'.i = ext.i + 1 /\ ~ext'.broke
          \/ ext'.i = ext.i /\ ext'.broke /\ ~ext.broke
    /\ (pc = "splitSelectColumns" /\ pc' = pc) => spl'.i = spl.i + 1
    /\ (pc = "parseSelectColumns" /\ pc' = pc) => nam'.k = nam.k + 1

\* What holds of every state of a call on a string: the bound on the steps
\* left is not negative, and the call either has ended with one outcome or
\* is underway.
Sound == StepsLeft >= 0 /\ IF Finished THEN OneOutcome ELSE Underway

\* C13: for every string input, balanced or not, analyzeQuery terminates (the
\* bound on the steps left is never negative and every step lowers it) with
\* exactly one of three outcomes, the complete list of names or one of the
\* two errors, and stops nowhere else; each scan is one left-to-right pass.
C13_TerminatesWithOneOutcome ==
    [][IsStringInput => (Sound /\ Sound' /\ StepsLeft' < StepsLeft /\ OnePass)]_vars

\* C13 witness: a query with an unclosed quote and an unmatched ")" has
\* returned its list of names.
C13_Witness ==
    /\ Finished
    /\ returned
    /\ Malformed
    /\ \E n \in DOMAIN cleaned : cleaned[n] = "'"
    /\ \E n \in DOMAIN cleaned : cleaned[n] = ")"
    /\ columns # <<>>

----------------------------------------------------------------------------
(* The subquery rule                                                       *)

\* The text after the last ")" of e, without the spaces around it; <<")">>,
\* which no such text can be, when e has no ")".
AfterLastParen(e) ==
    LET ps == {n \in DOMAIN e : e[n] = ")"}
    IN  IF ps = {} THEN <<")">>
        ELSE LET p == CHOOSE n \in ps : \A m \in ps : n >= m
                 rest == SubSeq(e, p + 1, Len(e))
                 body == {n \in DOMAIN rest : ~IsSpace(rest[n])}
             IN  IF body = {} THEN <<>>
                 ELSE SubSeq(rest, Least(body),
                             CHOOSE n \in body : \A m \in body : n >= m)

\* The tokens al with t = al or t = AS <spaces> al (AS in any letter case),
\* al being an identifier when strict and any run of word characters if not.
TailAliases(t, strict) ==
    {al \in {SubSeq(t, k, Len(t)) : k \in 1..Len(t)} :
        /\ IF strict THEN IsIdentifier(al) ELSE al # <<>> /\ AllWord(al)
        /\ \/ al = t
           \/ /\ Len(t) - Len(al) >= 3
              /\ ToUpperCase(SubSeq(t, 1, 2)) = AS_WORD
              /\ AllSpace(SubSeq(t, 3, Len(t) - Len(al)))}

\* The name the subquery rule gives e: the alias after the last ")" when
\* there is one, subquery_result otherwise.
DecidedBySubqueryRule(e, name, strict) ==
    IF TailAliases(AfterLastParen(e), strict) # {}
    THEN name \in TailAliases(AfterLastParen(e), strict)
    ELSE name = SUBQUERY_RESULT

\* C14 as stated: an expression starting with "(" is named by the subquery
\* rule alone: by the identifier (letters, digits and underscore, not
\* starting with a digit) that is all of the text T after the last ")",
\* or all of it after a leading AS, and by subquery_result when T is
\* anything else.
C14_SubqueryRuleDecides ==
    (Named /\ StartsWithParen(nam.part)) =>
        DecidedBySubqueryRule(nam.part, nam.columnName, TRUE)

\* The same with any run of word characters taken as the alias: what is left
\* of C14 once a token starting with a digit counts as an identifier.
SubqueryRuleDecidesOnWords ==
    (Named /\ StartsWithParen(nam.part)) =>
        DecidedBySubqueryRule(nam.part, nam.columnName, FALSE)

\* "(a + b) * c AS total" is named subquery_result, not total.
SubqueryNoFallThrough ==
    /\ Named
    /\ nam.part = <<"(","a"," ","+"," ","b",")"," ","*"," ","c"," ","A","S"," ","t","o","t","a","l">>
    /\ nam.columnName = SUBQUERY_RESULT

----------------------------------------------------------------------------
(* Names returned by the alias rules                                       *)

\* extractColumnName returns at line 225: the expression does not start
\* with "(" and asRegex matches.
ByExplicitAlias(e) == ~StartsWith(Trim(e), <<"(">>) /\ AsRegexMatch(e) # <<>>

\* extractColumnName returns at line 209 or 214: the expression starts with
\* "(" and the text after its last ")" matches one of the two alias regexes.
BySubqueryAlias(e) ==
    LET lastParenIndex == LastIndexOf(e, ")")
        afterParen == Trim(SubstringFrom(e, lastParenIndex + 1))
    IN  /\ StartsWith(Trim(e), <<"(">>)
        /\ lastParenIndex # -1
        /\ afterParen # <<>>
        /\ (SubqueryAsMatch(afterParen) # <<>> \/ SubqueryImplicitMatch(afterParen) # <<>>)

\* C15 as stated: a name returned by the explicit alias rule or as the alias
\* after a subquery's last ")" is an identifier: letters, digits and
\* underscore, not starting with a digit.
C15_AliasIsIdentifier ==
    (Named /\ (ByExplicitAlias(nam.part) \/ BySubqueryAlias(nam.part))) =>
        IsIdentifier(nam.columnName)

\* What the alias rules do give: a non-empty run of word characters.
AliasIsWord ==
    (Named /\ (ByExplicitAlias(nam.part) \/ BySubqueryAlias(nam.part))) =>
        (nam.columnName # <<>> /\ AllWord(nam.columnName))

\* "a AS 1x" is named 1x by the explicit alias rule.
DigitAliasAccepted ==
    /\ Named
    /\ nam.part = <<"a"," ","A","S"," ","1","x">>
    /\ ByExplicitAlias(nam.part)
    /\ nam.columnName = <<"1","x">>

----------------------------------------------------------------------------
(* The two scans side by side                                              *)

\* What both scans track.
Tracking(f) == <<f.parenthesesLevel, f.inQuotes, f.quoteChar>>

\* extractSelectClause's variables once its loop has gone past index n of
\* q, or has ended before.
RECURSIVE ExtScanTo(_, _, _)
ExtScanTo(f, q, n) ==
    IF f.i > n \/ ~ExtRunning(f, q) THEN f ELSE ExtScanTo(ExtIterate(f, q), q, n)

\* The index in the cleaned query of the first character of selectClause:
\* selectStart plus the spaces that trim() took off the front.
ClauseOffset ==
    LET raw == Substring(cleaned, ext.selectStart, ext.selectEnd)
    IN  ext.selectStart + (Len(raw) - Len(TrimStart(raw)))

\* One character between the tracked values f (before) and g (after): a
\* quote opens or closes exactly at a ' or " not preceded by a backslash
\* that finds no quote open or is the one that opened it; the depth moves,
\* by one, exactly at a "(" or ")" outside quotes.
TracksOneChar(f, g, char, prevChar) ==
    LET toggles == /\ char \in {"'", "\""} /\ prevChar # "\\"
                   /\ (~f.inQuotes \/ char = f.quoteChar)
    IN  /\ g.inQuotes = (IF toggles THEN ~f.inQuotes ELSE f.inQuotes)
        /\ g.quoteChar = (IF toggles THEN (IF f.inQuotes THEN "" ELSE char)
                          ELSE f.quoteChar)
        /\ g.parenthesesLevel =
              (IF ~g.inQuotes /\ char = "(" THEN f.parenthesesLevel + 1
               ELSE IF ~g.inQuotes /\ char = ")" THEN f.parenthesesLevel - 1
               ELSE f.parenthesesLevel)

PrevCharOf(s, i) == IF i > 0 THEN CharAt(s, i - 1) ELSE ""

\* A step of splitSelectColumns' loop leaves it with the values
\* extractSelectClause had after the same character, wherever the latter's
\* loop reached that character.
SameTracking ==
    (pc = "splitSelectColumns" /\ pc' = "splitSelectColumns") =>
        LET n == ClauseOffset + spl.i
            e == ExtScanTo(ExtEnter(cleaned), cleaned, n)
        IN  /\ CharAt(cleaned, n) = CharAt(selectClause, spl.i)
            /\ e.i = n + 1 => Tracking(e) = Tracking(spl')

\* C16: over the same clause text extractSelectClause and splitSelectColumns
\* hold the same depth, quote flag and quote character after every
\* character, and each follows the one rule for quotes, backslashes and
\* parentheses.
C16_ScansTrackAlike ==
    [][/\ SameTracking
       /\ (pc = "splitSelectColumns" /\ pc' = "splitSelectColumns") =>
             TracksOneChar(spl, spl', CharAt(selectClause, spl.i),
                           PrevCharOf(selectClause, spl.i))
       /\ (pc = "extractSelectClause" /\ pc' = "extractSelectClause") =>
             TracksOneChar(ext, ext', CharAt(cleaned, ext.i),
                           PrevCharOf(cleaned, ext.i))]_vars

\* C16 witness: in the clause (\' FROM t the splitter is past the escaped
\* quote, which opened nothing, at depth 1, as the extractor was.
C16_Witness ==
    /\ pc = "splitSelectColumns"
    /\ Len(selectClause) >= 3
    /\ SubSeq(selectClause, 1, 3) = <<"(", "\\", "'">>
    /\ spl.i = 3
    /\ Tracking(spl) = <<1, FALSE, "">>
    /\ LET e == ExtScanTo(ExtEnter(cleaned), cleaned, ClauseOffset + 2)
       IN  e.i = ClauseOffset + 3 /\ Tracking(e) = Tracking(spl)

====
